---- MODULE Spec2Model ----
(***************************************************************************)
(* Model of prepare_thoughts_v2.py: RobustThoughtProcessor, the tolerant   *)
(* section classifier for a devotional document, and process(), the pass   *)
(* over the paragraph stream that assembles and validates the day entries. *)
(*                                                                         *)
(* Text.  A string is a sequence of tokens.  A token is a word, a numeral  *)
(* (a run of digits), one of the punctuation characters ":" "-" "#" "&",   *)
(* a URL, or " " (surplus white space, which occurs only at the two ends   *)
(* of a paragraph as the document delivers it).  Words are written lower   *)
(* case: every pattern of the program that names a word is compiled with   *)
(* re.IGNORECASE.  Consecutive tokens are separated by at most white       *)
(* space, and a word is followed by white space before the next word, so   *)
(* \s* and \s+ between two tokens of a pattern both match.  Each regular   *)
(* expression of the program is an operator on token sequences that        *)
(* computes what the expression computes on the string the tokens spell.   *)
(***************************************************************************)
EXTENDS Integers, Sequences, FiniteSets, TLC

VARIABLES
    doc,                \* doc.paragraphs: the paragraphs of the document
    para_index,         \* number of paragraphs the loop of process() has consumed
    phase,              \* position in the run: "loop", "flushed", "done", "exited"
    classification,     \* the loop's local: label of the last classified paragraph
    diagnostic,         \* the loop's local: diagnostic of the last classified paragraph
    state,              \* the parser state machine (four flags)
    current_entry,      \* the active entry, or None
    current_validation, \* the active EntryValidation, or None
    entries,            \* closed entries
    validations,        \* EntryValidation of the closed entries
    master_index,       \* the "days" list of index.json
    validation_report,  \* the "issues" list of validation_report.json
    result,             \* the dict process() returns, or None
    files,              \* the output folder: file name -> what was written
    strip_runs,         \* successive results of _strip_label on one text
    stdout,             \* what main() has printed
    exit_status         \* the status the script ends with, or None while it runs

vars == <<doc, para_index, phase, classification, diagnostic, state,
          current_entry, current_validation, entries, validations,
          master_index, validation_report, result, files, strip_runs, stdout,
          exit_status>>

None == [none |-> TRUE]

----------------------------------------------------------------------------
(* Bounds of the model *)

MaxParas == 4        \* paragraphs in a document of Spec
MaxBody == 2         \* body paragraphs in a day window of SpecDay
MaxLen == 4          \* tokens in a text of SpecStrip

----------------------------------------------------------------------------
(* Tokens and elementary string operations *)

\* int(match.group(1)) on the numerals of the model
NumVal == ("1" :> 1) @@ ("2" :> 2) @@ ("3" :> 3) @@ ("5" :> 5) @@ ("16" :> 16)

IsNum(tok) == tok \in DOMAIN NumVal

\* the characters of the class [:\-...] that follows a label
LabelPunct == {":", "-"}

\* the i-th token of t, "" past either end
Tok(t, i) == IF i >= 1 /\ i <= Len(t) THEN t[i] ELSE ""

Drop(t, n) == SubSeq(t, n + 1, Len(t))

RECURSIVE LStrip(_)
LStrip(t) == IF t # <<>> /\ Head(t) = " " THEN LStrip(Tail(t)) ELSE t

RECURSIVE RStrip(_)
RStrip(t) ==
    IF t # <<>> /\ t[Len(t)] = " " THEN RStrip(SubSeq(t, 1, Len(t) - 1)) ELSE t

\* str.strip()
strip(t) == RStrip(LStrip(t))

\* length of the run of [:\-] characters that starts at token i
RECURSIVE PunctRun(_, _)
PunctRun(t, i) == IF Tok(t, i) \in LabelPunct THEN 1 + PunctRun(t, i + 1) ELSE 0

\* pattern.search(text) for a pattern that is a fixed sequence of words w:
\* some position of t where the words of w follow one another
FoundAt(t, w, i) == \A k \in 1..Len(w) : Tok(t, i + k - 1) = w[k]

Found(t, w) == \E i \in 1..Len(t) : FoundAt(t, w, i)

----------------------------------------------------------------------------
(* label_strip_patterns and _strip_label *)

\* Each operator gives the number of tokens the pattern matches at the start
\* of t (0: no match; every pattern matches at least one word).

\* ^prayer\s*[:\-]+\s*
StripPrayerLen(t) ==
    IF Tok(t, 1) = "prayer" /\ PunctRun(t, 2) >= 1 THEN 1 + PunctRun(t, 2) ELSE 0

\* ^bible\s+(in|on)\s+a?\s*year\s*(reading\s*plan)?\s*[:\-]*\s*
StripBibleYearLen(t) ==
    LET y == IF Tok(t, 3) = "a" THEN 4 ELSE 3
    IN  IF Tok(t, 1) = "bible" /\ Tok(t, 2) \in {"in", "on"} /\ Tok(t, y) = "year"
        THEN LET r == IF Tok(t, y + 1) = "reading" /\ Tok(t, y + 2) = "plan"
                      THEN y + 2 ELSE y
             IN  r + PunctRun(t, r + 1)
        ELSE 0

\* ^(daily|today.?s?|further|additional)\s+reading\s*[:\-]*\s*
StripReadingLen(t) ==
    IF /\ Tok(t, 1) \in {"daily", "today", "today's", "further", "additional"}
       /\ Tok(t, 2) = "reading"
    THEN 2 + PunctRun(t, 3) ELSE 0

\* ^read\s+also\s*[:\-]*\s*
StripReadAlsoLen(t) ==
    IF Tok(t, 1) = "read" /\ Tok(t, 2) = "also" THEN 2 + PunctRun(t, 3) ELSE 0

\* ^study\s*text\s*[:\-]*\s*
StripStudyTextLen(t) ==
    IF Tok(t, 1) = "study" /\ Tok(t, 2) = "text" THEN 2 + PunctRun(t, 3) ELSE 0

\* pattern.sub('', result).strip() for the pattern whose match length is n
SubStrip(t, n) == strip(Drop(t, n))

\* _strip_label: the five patterns, each applied once, in the order of the list
_strip_label(text) ==
    LET r1 == SubStrip(text, StripPrayerLen(text))
        r2 == SubStrip(r1, StripBibleYearLen(r1))
        r3 == SubStrip(r2, StripReadingLen(r2))
        r4 == SubStrip(r3, StripReadAlsoLen(r3))
        r5 == SubStrip(r4, StripStudyTextLen(r4))
    IN  r5

----------------------------------------------------------------------------
(* The pattern tables of __init__ and classify_paragraph *)

\* Each operator gives the position in its list of the first pattern that
\* matches t (0: none), which is what the loops over the lists return.

\* day_patterns, tried with pattern.match (anchored at the start):
\*   ^Day\s+(\d+)     ^(\d+)\s*[-...:]\s*Day     ^#?\s*(\d+)\s*$
DayPattern(t) ==
    IF Tok(t, 1) = "day" /\ IsNum(Tok(t, 2)) THEN 1
    ELSE IF /\ IsNum(Tok(t, 1))
            /\ Tok(t, 2) \in {"-", ":"}
            /\ Tok(t, 3) = "day" THEN 2
    ELSE IF \/ Len(t) = 1 /\ IsNum(t[1])
            \/ Len(t) = 2 /\ t[1] = "#" /\ IsNum(t[2]) THEN 3
    ELSE 0

DayDesc == <<"Day N", "N - Day", "Standalone number">>

\* int(match.group(1)) of the first day pattern that matches
day_num(t) ==
    CASE DayPattern(t) = 1 -> NumVal[t[2]]
      [] DayPattern(t) = 2 -> NumVal[t[1]]
      [] DayPattern(t) = 3 -> NumVal[t[Len(t)]]
      [] OTHER -> -1

\* study_text_patterns, tried with pattern.search (anywhere in the text)
StudyTextPattern(t) ==
    IF Found(t, <<"study", "text">>) THEN 1
    ELSE IF Found(t, <<"scripture", "ref">>) THEN 2
    ELSE IF Found(t, <<"text", ":">>) THEN 3
    ELSE IF Found(t, <<"reading", ":">>) THEN 4
    ELSE IF Found(t, <<"verse", ":">>) THEN 5
    ELSE IF Found(t, <<"passage", ":">>) THEN 6
    ELSE 0

StudyTextDesc ==
    <<"study text", "scripture ref", "text:", "reading:", "verse:", "passage:">>

\* prayer_patterns, each anchored with ^:
\*   ^prayer\s*[:\-...]+    ^prayer\s*$    ^\*?\*?prayer\*?\*?\s*[:\-...]*
\*   ^let\s+us\s+pray   (which also matches "let us prayer")
PrayerPattern(t) ==
    IF Tok(t, 1) = "prayer" /\ Tok(t, 2) \in LabelPunct THEN 1
    ELSE IF t = <<"prayer">> THEN 2
    ELSE IF Tok(t, 1) = "prayer" THEN 3
    ELSE IF FoundAt(t, <<"let", "us">>, 1) /\ Tok(t, 3) \in {"pray", "prayer"} THEN 4
    ELSE 0

PrayerDesc == <<"Prayer:-", "Prayer (standalone)", "**Prayer**", "Let us pray">>

\* bible_reading_patterns, tried with pattern.search
BibleReadingPattern(t) ==
    IF \E i \in 1..Len(t) :
           /\ Tok(t, i) = "bible"
           /\ Tok(t, i + 1) \in {"in", "on"}
           /\ \/ Tok(t, i + 2) = "year"
              \/ Tok(t, i + 2) = "a" /\ Tok(t, i + 3) = "year" THEN 1
    ELSE IF Found(t, <<"bible", "reading", "plan">>) THEN 2
    ELSE IF Found(t, <<"daily", "reading">>) THEN 3
    ELSE IF Found(t, <<"today", "reading">>) \/ Found(t, <<"today's", "reading">>) THEN 4
    ELSE IF Found(t, <<"further", "reading">>) THEN 5
    ELSE IF Found(t, <<"read", "also">>) THEN 6
    ELSE IF Found(t, <<"additional", "reading">>) THEN 7
    ELSE 0

BibleReadingDesc ==
    <<"Bible in a year", "Bible reading plan", "Daily reading", "Today's reading",
      "Further reading", "Read also", "Additional reading">>

\* the book names of _looks_like_scripture_reference that the model's texts use
Books == {"john", "genesis"}

\* _looks_like_scripture_reference:  \d+\s*:\s*\d+  or a book name as a word
_looks_like_scripture_reference(t) ==
    \/ \E i \in 1..Len(t) :
           IsNum(Tok(t, i)) /\ Tok(t, i + 1) = ":" /\ IsNum(Tok(t, i + 2))
    \/ \E i \in 1..Len(t) : t[i] \in Books

\* matched_pattern=None
NoPattern == "None"

\* a variant that loses the paragraph index
ParseDiagnostic_NoIndex(idx, raw_text, cls, reason, matched) ==
    [paragraph_index |-> 0, raw_text |-> raw_text, classification |-> cls,
     reason |-> reason, matched_pattern |-> matched]

ParseDiagnostic(idx, raw_text, cls, reason, matched) ==
    [paragraph_index |-> idx, raw_text |-> raw_text, classification |-> cls,
     reason |-> reason, matched_pattern |-> matched]

ReasonTitle == "First non-day paragraph after Day marker, interpreted as title"
ReasonRefLooks ==
    "Looks like a scripture reference (contains book name or chapter:verse pattern)"
ReasonRefVerify ==
    "Expected scripture reference position (after Study Text header), but text doesn't look like typical reference - please verify"
ReasonScriptureText ==
    "First paragraph after scripture reference, interpreted as scripture text/quote"
ReasonDevotional == "No special markers found, classified as devotional content"

\* a variant that looks for the scripture text before the reference
StateFallback_TextBeforeRef(raw_text, idx, st) ==
    IF st.awaiting_title
    THEN ParseDiagnostic(idx, raw_text, "TITLE", ReasonTitle, NoPattern)
    ELSE IF st.awaiting_scripture_text
    THEN ParseDiagnostic(idx, raw_text, "SCRIPTURE_TEXT", ReasonScriptureText, NoPattern)
    ELSE IF st.awaiting_scripture_ref
    THEN IF _looks_like_scripture_reference(raw_text)
         THEN ParseDiagnostic(idx, raw_text, "SCRIPTURE_REF", ReasonRefLooks, NoPattern)
         ELSE ParseDiagnostic(idx, raw_text, "SCRIPTURE_REF", ReasonRefVerify, NoPattern)
    ELSE ParseDiagnostic(idx, raw_text, "DEVOTIONAL", ReasonDevotional, NoPattern)

\* a variant that rejects a reference that does not look like a citation
StateFallback_StrictRef(raw_text, idx, st) ==
    IF st.awaiting_title
    THEN ParseDiagnostic(idx, raw_text, "TITLE", ReasonTitle, NoPattern)
    ELSE IF st.awaiting_scripture_ref /\ _looks_like_scripture_reference(raw_text)
    THEN ParseDiagnostic(idx, raw_text, "SCRIPTURE_REF", ReasonRefLooks, NoPattern)
    ELSE IF st.awaiting_scripture_text
    THEN ParseDiagnostic(idx, raw_text, "SCRIPTURE_TEXT", ReasonScriptureText, NoPattern)
    ELSE ParseDiagnostic(idx, raw_text, "DEVOTIONAL", ReasonDevotional, NoPattern)

\* the context-dependent tail of classify_paragraph
StateFallback(raw_text, idx, st) ==
    IF st.awaiting_title
    THEN ParseDiagnostic(idx, raw_text, "TITLE", ReasonTitle, NoPattern)
    ELSE IF st.awaiting_scripture_ref
    THEN IF _looks_like_scripture_reference(raw_text)
         THEN ParseDiagnostic(idx, raw_text, "SCRIPTURE_REF", ReasonRefLooks, NoPattern)
         ELSE ParseDiagnostic(idx, raw_text, "SCRIPTURE_REF", ReasonRefVerify, NoPattern)
    ELSE IF st.awaiting_scripture_text
    THEN ParseDiagnostic(idx, raw_text, "SCRIPTURE_TEXT", ReasonScriptureText, NoPattern)
    ELSE ParseDiagnostic(idx, raw_text, "DEVOTIONAL", ReasonDevotional, NoPattern)

\* a variant that consults the parser state before the prayer and
\* Bible-reading patterns
classify_paragraph_StateBeforeLabels(raw_text, idx, st) ==
    IF DayPattern(raw_text) # 0
    THEN ParseDiagnostic(idx, raw_text, "DAY_MARKER",
                         <<"Matched day pattern: ", DayDesc[DayPattern(raw_text)]>>,
                         DayDesc[DayPattern(raw_text)])
    ELSE IF StudyTextPattern(raw_text) # 0
    THEN ParseDiagnostic(idx, raw_text, "STUDY_TEXT_HEADER",
                         <<"Matched study text pattern: ",
                           StudyTextDesc[StudyTextPattern(raw_text)]>>,
                         StudyTextDesc[StudyTextPattern(raw_text)])
    ELSE IF st.awaiting_title \/ st.awaiting_scripture_ref \/ st.awaiting_scripture_text
    THEN StateFallback(raw_text, idx, st)
    ELSE IF PrayerPattern(raw_text) # 0
    THEN ParseDiagnostic(idx, raw_text, "PRAYER",
                         <<"Matched prayer pattern: ", PrayerDesc[PrayerPattern(raw_text)]>>,
                         PrayerDesc[PrayerPattern(raw_text)])
    ELSE IF BibleReadingPattern(raw_text) # 0
    THEN ParseDiagnostic(idx, raw_text, "BIBLE_READING",
                         <<"Matched Bible reading pattern: ",
                           BibleReadingDesc[BibleReadingPattern(raw_text)]>>,
                         BibleReadingDesc[BibleReadingPattern(raw_text)])
    ELSE StateFallback(raw_text, idx, st)

\* classify_paragraph: the diagnostic it returns; the label it returns is the
\* diagnostic's classification
classify_paragraph(raw_text, idx, st) ==
    IF DayPattern(raw_text) # 0
    THEN ParseDiagnostic(idx, raw_text, "DAY_MARKER",
                         <<"Matched day pattern: ", DayDesc[DayPattern(raw_text)]>>,
                         DayDesc[DayPattern(raw_text)])
    ELSE IF StudyTextPattern(raw_text) # 0
    THEN ParseDiagnostic(idx, raw_text, "STUDY_TEXT_HEADER",
                         <<"Matched study text pattern: ",
                           StudyTextDesc[StudyTextPattern(raw_text)]>>,
                         StudyTextDesc[StudyTextPattern(raw_text)])
    ELSE IF PrayerPattern(raw_text) # 0
    THEN ParseDiagnostic(idx, raw_text, "PRAYER",
                         <<"Matched prayer pattern: ", PrayerDesc[PrayerPattern(raw_text)]>>,
                         PrayerDesc[PrayerPattern(raw_text)])
    ELSE IF BibleReadingPattern(raw_text) # 0
    THEN ParseDiagnostic(idx, raw_text, "BIBLE_READING",
                         <<"Matched Bible reading pattern: ",
                           BibleReadingDesc[BibleReadingPattern(raw_text)]>>,
                         BibleReadingDesc[BibleReadingPattern(raw_text)])
    ELSE StateFallback(raw_text, idx, st)

----------------------------------------------------------------------------
(* Rich text: apply_formatting and get_paragraph_content *)

\* A paragraph is [text, style]: one run that carries the paragraph's text
\* (para.text, white space at its ends included) and the run's properties,
\* style being a subset of {"bold", "italic", "red"}.

Urls == {"http://x"}

\* html.escape on one token
EscapeTok(tok) ==
    CASE tok = "&" -> "&amp;"
      [] tok = "today's" -> "today&#x27;s"
      [] OTHER -> tok

HtmlEscape(t) == [i \in 1..Len(t) |-> EscapeTok(t[i])]

\* re.sub(self.url_regex, link_repl, formatted)
RECURSIVE Linkify(_)
Linkify(t) ==
    IF t = <<>> THEN <<>>
    ELSE IF Head(t) \in Urls
         THEN <<"<a href=\"", Head(t), "\" target=\"_blank\">", Head(t), "</a>">>
                  \o Linkify(Tail(t))
         ELSE <<Head(t)>> \o Linkify(Tail(t))

apply_formatting(text, style) ==
    IF text = <<>> THEN <<>>
    ELSE LET f0 == Linkify(HtmlEscape(text))
             f1 == IF "red" \in style
                   THEN <<"<span class=\"red-text\" style=\"color:red;\">">> \o f0
                            \o <<"</span>">>
                   ELSE f0
             f2 == IF "bold" \in style THEN <<"<b>">> \o f1 \o <<"</b>">> ELSE f1
             f3 == IF "italic" \in style THEN <<"<i>">> \o f2 \o <<"</i>">> ELSE f2
         IN  f3

\* get_paragraph_content: the markup it returns
get_paragraph_content(para) == apply_formatting(para.text, para.style)

\* get_paragraph_content: what it records in entry_meta
MarkEntryMeta(para, entry) ==
    [entry EXCEPT
        !.has_links = @ \/ (\E i \in 1..Len(para.text) : para.text[i] \in Urls),
        !.has_highlights = @ \/ (para.text # <<>> /\ "red" \in para.style)]

----------------------------------------------------------------------------
(* process(): the parser state and the paragraph loop *)

InitialState ==
    [awaiting_title |-> FALSE, awaiting_scripture_ref |-> FALSE,
     awaiting_scripture_text |-> FALSE, in_devotional |-> FALSE]

\* a variant that forgets to clear awaiting_scripture_text
reset_state_KeepScriptureText(st) ==
    [st EXCEPT !.awaiting_title = TRUE, !.awaiting_scripture_ref = FALSE,
               !.in_devotional = FALSE]

reset_state(st) ==
    [st EXCEPT !.awaiting_title = TRUE, !.awaiting_scripture_ref = FALSE,
               !.awaiting_scripture_text = FALSE, !.in_devotional = FALSE]

NewEntry(day) ==
    [day |-> day, title |-> <<>>, scripture_ref |-> <<>>, scripture_text |-> <<>>,
     devotional |-> <<>>, prayer |-> <<>>, bible_reading |-> <<>>,
     has_links |-> FALSE, has_highlights |-> FALSE, temp_devotional_list |-> <<>>]

EntryValidation(day, title) ==
    [day |-> day, title |-> title, missing_sections |-> <<>>, warnings |-> <<>>,
     diagnostics |-> <<>>]

\* a variant that keeps only the entry being closed
AppendIfAny_Overwrite(list, cur) == IF cur # None THEN <<cur>> ELSE list

\* entries.append(current_entry) / validations.append(current_validation),
\* each guarded by "if current_...:"
AppendIfAny(list, cur) == IF cur # None THEN Append(list, cur) ELSE list

\* raw_text.split(":", 1)[1].strip(), for a text that has a colon
RECURSIVE FirstColon(_, _)
FirstColon(t, i) ==
    IF i > Len(t) THEN 0 ELSE IF t[i] = ":" THEN i ELSE FirstColon(t, i + 1)

AfterColon(t) == strip(Drop(t, FirstColon(t, 1)))

\* The branches of the if/elif chain.  c = [entry, validation, state] is the
\* active entry, its validation and the parser state; each branch gives them
\* as the branch leaves them.

\* a variant that goes on awaiting the title
SetTitle_KeepAwaiting(c, raw_text) ==
    [c EXCEPT !.entry.title = raw_text,
              !.validation.title = raw_text]

SetTitle(c, raw_text) ==
    [c EXCEPT !.entry.title = raw_text,
              !.validation.title = raw_text,
              !.state.awaiting_title = FALSE]

\* a variant that never takes the reference from the header line
ApplyStudyTextHeader_NoInline(c, raw_text) ==
    [c EXCEPT !.state.awaiting_scripture_ref = TRUE,
              !.state.awaiting_title = FALSE]

ApplyStudyTextHeader(c, raw_text) ==
    LET c1 == [c EXCEPT !.state.awaiting_scripture_ref = TRUE,
                        !.state.awaiting_title = FALSE]
    IN  IF /\ FirstColon(raw_text, 1) # 0
           /\ AfterColon(raw_text) # <<>>
           /\ _looks_like_scripture_reference(AfterColon(raw_text))
        THEN [c1 EXCEPT !.entry.scripture_ref = AfterColon(raw_text),
                        !.state.awaiting_scripture_ref = FALSE,
                        !.state.awaiting_scripture_text = TRUE]
        ELSE c1

\* a variant that stores only a reference that looks like a citation
ApplyScriptureRef_DropUnlikely(c, raw_text) ==
    [c EXCEPT !.entry.scripture_ref =
                  IF _looks_like_scripture_reference(raw_text)
                  THEN _strip_label(raw_text) ELSE @,
              !.state.awaiting_scripture_ref = FALSE,
              !.state.awaiting_scripture_text = TRUE]

ApplyScriptureRef(c, raw_text) ==
    [c EXCEPT !.entry.scripture_ref = _strip_label(raw_text),
              !.state.awaiting_scripture_ref = FALSE,
              !.state.awaiting_scripture_text = TRUE]

\* a variant that goes on awaiting the scripture text
ApplyScriptureText_KeepAwaiting(c, p_html) ==
    [c EXCEPT !.entry.scripture_text = p_html,
              !.state.in_devotional = TRUE]

ApplyScriptureText(c, p_html) ==
    [c EXCEPT !.entry.scripture_text = p_html,
              !.state.awaiting_scripture_text = FALSE,
              !.state.in_devotional = TRUE]

ApplyPrayer(c, raw_text) ==
    [c EXCEPT !.entry.prayer = _strip_label(raw_text),
              !.state.in_devotional = FALSE]

ApplyBibleReading(c, raw_text) ==
    [c EXCEPT !.entry.bible_reading = _strip_label(raw_text),
              !.state.in_devotional = FALSE]

DevotionalParagraph(p_html) == <<"<p>">> \o p_html \o <<"</p>">>

\* a variant that takes every devotional paragraph as the title
ApplyDevotional_AlwaysTitle(c, raw_text, p_html) == SetTitle(c, raw_text)

\* a variant that drops a paragraph the list already holds
ApplyDevotional_Dedup(c, raw_text, p_html) ==
    IF c.entry.title = <<>>
    THEN SetTitle(c, raw_text)
    ELSE IF \E k \in 1..Len(c.entry.temp_devotional_list) :
                c.entry.temp_devotional_list[k] = DevotionalParagraph(p_html)
    THEN [c EXCEPT !.state.in_devotional = TRUE]
    ELSE [c EXCEPT !.entry.temp_devotional_list = Append(@, DevotionalParagraph(p_html)),
                   !.state.in_devotional = TRUE]

ApplyDevotional(c, raw_text, p_html) ==
    IF c.entry.title = <<>>
    THEN SetTitle(c, raw_text)
    ELSE [c EXCEPT !.entry.temp_devotional_list = Append(@, DevotionalParagraph(p_html)),
                   !.state.in_devotional = TRUE]

ApplyCatchAll(c, raw_text, p_html) ==
    IF c.state.awaiting_title /\ c.entry.title = <<>>
    THEN SetTitle(c, raw_text)
    ELSE [c EXCEPT !.entry.temp_devotional_list = Append(@, DevotionalParagraph(p_html))]

\* which branch of the chain a classified paragraph takes
Branch(cls, c) ==
    IF cls = "TITLE" /\ c.entry.title = <<>> THEN "title"
    ELSE IF cls = "STUDY_TEXT_HEADER" THEN "study_text_header"
    ELSE IF cls = "SCRIPTURE_REF" /\ c.state.awaiting_scripture_ref THEN "scripture_ref"
    ELSE IF cls = "SCRIPTURE_TEXT" /\ c.state.awaiting_scripture_text THEN "scripture_text"
    ELSE IF cls = "PRAYER" THEN "prayer"
    ELSE IF cls = "BIBLE_READING" THEN "bible_reading"
    ELSE IF cls = "DEVOTIONAL" THEN "devotional"
    ELSE "catch_all"

ApplyClassification(cls, c, raw_text, p_html) ==
    CASE Branch(cls, c) = "title" -> SetTitle(c, raw_text)
      [] Branch(cls, c) = "study_text_header" -> ApplyStudyTextHeader(c, raw_text)
      [] Branch(cls, c) = "scripture_ref" -> ApplyScriptureRef(c, raw_text)
      [] Branch(cls, c) = "scripture_text" -> ApplyScriptureText(c, p_html)
      [] Branch(cls, c) = "prayer" -> ApplyPrayer(c, raw_text)
      [] Branch(cls, c) = "bible_reading" -> ApplyBibleReading(c, raw_text)
      [] Branch(cls, c) = "devotional" -> ApplyDevotional(c, raw_text, p_html)
      [] OTHER -> ApplyCatchAll(c, raw_text, p_html)

\* the paragraph the loop is at, and its stripped text
Para == doc[para_index + 1]
RawText == strip(Para.text)
Classified == classify_paragraph(RawText, para_index, state)

InLoop == phase = "loop" /\ para_index < Len(doc)

UnchangedOutput ==
    UNCHANGED <<master_index, validation_report, result, files, strip_runs, stdout,
                exit_status>>

\* a variant in which an empty paragraph ends the wait for the title
SkipEmpty_ClearsAwaiting ==
    /\ InLoop
    /\ RawText = <<>>
    /\ para_index' = para_index + 1
    /\ state' = [state EXCEPT !.awaiting_title = FALSE]
    /\ UNCHANGED <<doc, phase, classification, diagnostic, current_entry,
                   current_validation, entries, validations>>
    /\ UnchangedOutput

\* "if not raw_text: continue"
SkipEmpty ==
    /\ InLoop
    /\ RawText = <<>>
    /\ para_index' = para_index + 1
    /\ UNCHANGED <<doc, phase, classification, diagnostic, state, current_entry,
                   current_validation, entries, validations>>
    /\ UnchangedOutput

\* the DAY_MARKER branch: close the active entry, open the next one
OpenDay ==
    /\ InLoop
    /\ RawText # <<>>
    /\ Classified.classification = "DAY_MARKER"
    /\ classification' = Classified.classification
    /\ diagnostic' = Classified
    /\ entries' = AppendIfAny(entries, current_entry)
    /\ validations' = AppendIfAny(validations, current_validation)
    /\ current_entry' = NewEntry(day_num(RawText))
    /\ current_validation' =
           [EntryValidation(day_num(RawText), <<>>) EXCEPT !.diagnostics = <<Classified>>]
    /\ state' = reset_state(state)
    /\ para_index' = para_index + 1
    /\ UNCHANGED <<doc, phase>>
    /\ UnchangedOutput

\* "if not current_entry: continue": content before the first day marker
SkipBeforeFirstDay ==
    /\ InLoop
    /\ RawText # <<>>
    /\ Classified.classification # "DAY_MARKER"
    /\ current_entry = None
    /\ classification' = Classified.classification
    /\ diagnostic' = Classified
    /\ para_index' = para_index + 1
    /\ UNCHANGED <<doc, phase, state, current_entry, current_validation, entries,
                   validations>>
    /\ UnchangedOutput

\* a classified paragraph of the active day: record its diagnostic, extract
\* its markup, apply its label
ApplyParagraph ==
    /\ InLoop
    /\ RawText # <<>>
    /\ Classified.classification # "DAY_MARKER"
    /\ current_entry # None
    /\ classification' = Classified.classification
    /\ diagnostic' = Classified
    /\ LET c0 == [entry |-> MarkEntryMeta(Para, current_entry),
                  validation |-> [current_validation EXCEPT
                                      !.diagnostics = Append(@, Classified)],
                  state |-> state]
           c1 == ApplyClassification(Classified.classification, c0, RawText,
                                     get_paragraph_content(Para))
       IN  /\ current_entry' = c1.entry
           /\ current_validation' = c1.validation
           /\ state' = c1.state
    /\ para_index' = para_index + 1
    /\ UNCHANGED <<doc, phase, entries, validations>>
    /\ UnchangedOutput

\* "Don't forget the last entry": the input is exhausted
EndOfInput ==
    /\ phase = "loop"
    /\ para_index = Len(doc)
    /\ entries' = AppendIfAny(entries, current_entry)
    /\ validations' = AppendIfAny(validations, current_validation)
    /\ phase' = "flushed"
    /\ UNCHANGED <<doc, para_index, classification, diagnostic, state, current_entry,
                   current_validation>>
    /\ UnchangedOutput

----------------------------------------------------------------------------
(* process(): validation of the closed entries and the output *)

\* "\n".join(list)
RECURSIVE Join(_)
Join(list) ==
    IF list = <<>> THEN <<>>
    ELSE IF Len(list) = 1 THEN list[1]
    ELSE list[1] \o <<"\n">> \o Join(Tail(list))

\* a variant that tests the devotional field of the entry, which is still
\* empty when the sections are checked, instead of the joined list
MissingSections_StaleDevotional(entry) ==
    LET Miss(cond, name) == IF cond THEN <<name>> ELSE <<>>
    IN  Miss(entry.title = <<>>, "title")
        \o Miss(entry.scripture_ref = <<>>, "scripture_ref")
        \o Miss(entry.scripture_text = <<>>, "scripture_text")
        \o Miss(strip(entry.devotional) = <<>>, "devotional")
        \o Miss(entry.prayer = <<>>, "prayer")
        \o Miss(entry.bible_reading = <<>>, "bible_reading")

\* the checks "if not entry[...]: missing.append(...)", in their order;
\* devotional is the joined list, tested after .strip()
MissingSections(entry) ==
    LET devotional == Join(entry.temp_devotional_list)
        Miss(cond, name) == IF cond THEN <<name>> ELSE <<>>
    IN  Miss(entry.title = <<>>, "title")
        \o Miss(entry.scripture_ref = <<>>, "scripture_ref")
        \o Miss(entry.scripture_text = <<>>, "scripture_text")
        \o Miss(strip(devotional) = <<>>, "devotional")
        \o Miss(entry.prayer = <<>>, "prayer")
        \o Miss(entry.bible_reading = <<>>, "bible_reading")

ShortDevotional(n) == [warning |-> "Devotional seems short", paragraphs |-> n]

Warnings(entry) ==
    IF /\ strip(Join(entry.temp_devotional_list)) # <<>>
       /\ Len(entry.temp_devotional_list) < 2
    THEN <<ShortDevotional(Len(entry.temp_devotional_list))>>
    ELSE <<>>

\* entry["html"]
EntryHtml(entry, devotional) ==
    <<"<h2 class='thought-title'>">> \o HtmlEscape(entry.title) \o <<"</h2>">>
    \o <<"<div class='scripture-ref'>">> \o HtmlEscape(entry.scripture_ref) \o <<"</div>">>
    \o <<"<div class='scripture-text'>">> \o entry.scripture_text \o <<"</div>">>
    \o <<"<div class='devotional'>">> \o devotional \o <<"</div>">>
    \o <<"<div class='prayer'><b>Prayer:</b> ">> \o HtmlEscape(entry.prayer) \o <<"</div>">>
    \o <<"<div class='bible-reading'><b>Bible in a year reading plan:</b> ">>
    \o HtmlEscape(entry.bible_reading) \o <<"</div>">>

\* the entry as the validation loop leaves it: devotional joined, html built,
\* temp_devotional_list deleted
FinalEntry(entry) ==
    LET devotional == Join(entry.temp_devotional_list)
    IN  [day |-> entry.day, title |-> entry.title,
         scripture_ref |-> entry.scripture_ref,
         scripture_text |-> entry.scripture_text,
         devotional |-> devotional, prayer |-> entry.prayer,
         bible_reading |-> entry.bible_reading,
         has_links |-> entry.has_links, has_highlights |-> entry.has_highlights,
         html |-> EntryHtml(entry, devotional)]

\* EntryValidation.is_complete
is_complete(v) == Len(v.missing_sections) = 0

FinalValidation(v, entry) ==
    [v EXCEPT !.missing_sections = MissingSections(entry), !.warnings = Warnings(entry)]

\* f"day-{entry['day']:03d}.json"
DigitStr == <<"0", "1", "2", "3", "4", "5", "6", "7", "8", "9">>

RECURSIVE Decimal(_)
Decimal(n) ==
    IF n < 10 THEN <<DigitStr[n + 1]>>
    ELSE Append(Decimal(n \div 10), DigitStr[(n % 10) + 1])

RECURSIVE ZeroPad(_, _)
ZeroPad(digits, width) ==
    IF Len(digits) >= width THEN digits ELSE ZeroPad(<<"0">> \o digits, width)

FileName(day) == <<"day-">> \o ZeroPad(Decimal(day), 3) \o <<".json">>

\* number of characters of the string the tokens spell
RECURSIVE CharLen(_)
CharLen(t) ==
    IF t = <<>> THEN 0
    ELSE Len(Head(t)) + (IF Len(t) > 1 THEN 1 ELSE 0) + CharLen(Tail(t))

\* text[:n] + "..." if len(text) > n else text
Preview(t, n) ==
    IF CharLen(t) > n THEN [first |-> n, of |-> t, then |-> "..."] ELSE t

IndexEntry(entry, missing) ==
    [day |-> entry.day, title |-> entry.title, file |-> FileName(entry.day),
     has_links |-> entry.has_links, has_highlights |-> entry.has_highlights,
     is_complete |-> (Len(missing) = 0), missing_sections |-> missing]

ReportDiagnostic(d) ==
    [para_index |-> d.paragraph_index, text_preview |-> Preview(d.raw_text, 80),
     classification |-> d.classification, reason |-> d.reason]

Issue(entry, v) ==
    [day |-> entry.day, title |-> Preview(entry.title, 50),
     missing |-> MissingSections(entry), warnings |-> Warnings(entry),
     diagnostics |-> [k \in 1..Len(v.diagnostics) |-> ReportDiagnostic(v.diagnostics[k])]]

HasIssue(entry) == MissingSections(entry) # <<>> \/ Warnings(entry) # <<>>

\* validation_report: one issue for each entry with a missing section or a warning
RECURSIVE Issues(_, _, _)
Issues(es, vs, i) ==
    IF i > Len(es) THEN <<>>
    ELSE (IF HasIssue(es[i]) THEN <<Issue(es[i], vs[i])>> ELSE <<>>)
         \o Issues(es, vs, i + 1)

\* sum(1 for e in master_index if e["is_complete"])
CompleteDays(index) == Cardinality({k \in 1..Len(index) : index[k].is_complete})

\* sum(1 for e in master_index if not e["is_complete"])
IncompleteDays(index) == Cardinality({k \in 1..Len(index) : ~index[k].is_complete})

\* sum(1 for v in validation_report if not v["missing"])
NothingMissingCount(issues) ==
    Cardinality({k \in 1..Len(issues) : issues[k].missing = <<>>})

\* open(name, 'w') and write: the file is created or replaced
WriteFile(fs, name, content) ==
    [x \in DOMAIN fs \cup {name} |-> IF x = name THEN content ELSE fs[x]]

\* the per-day files, written in the order of the entries
RECURSIVE WriteDayFiles(_, _, _)
WriteDayFiles(fs, es, i) ==
    IF i > Len(es) THEN fs
    ELSE WriteDayFiles(WriteFile(fs, FileName(es[i].day), FinalEntry(es[i])), es, i + 1)

\* _generate_human_report: the header counts and the entries it lists
\* (the generation time is left out)
HumanReport(es, issues) ==
    [total_entries_processed |-> Len(es),
     complete_entries |-> Len(es) - Len(issues),
     entries_with_issues |-> Len(issues),
     all_complete |-> (issues = <<>>),
     listed |-> [k \in 1..Len(issues) |->
                    [day |-> issues[k].day, title |-> issues[k].title,
                     missing |-> issues[k].missing, warnings |-> issues[k].warnings,
                     diagnostics |-> issues[k].diagnostics,
                     suggestions_for |-> issues[k].missing]]]

\* the part of process() after the loop, for the closed entries es, their
\* validations vs and the output folder fs: validate every entry, write the
\* per-day files, index.json and the two reports; what it leaves and returns
Outputs(es, vs, fs) ==
    LET index == [k \in 1..Len(es) |-> IndexEntry(es[k], MissingSections(es[k]))]
        issues == Issues(es, vs, 1)
        report == HumanReport(es, issues)
        f1 == WriteDayFiles(fs, es, 1)
        f2 == WriteFile(f1, <<"index.json">>,
                  [total_days |-> Len(es),
                   complete_days |-> CompleteDays(index),
                   incomplete_days |-> IncompleteDays(index),
                   days |-> index])
        f3 == WriteFile(f2, <<"validation_report.json">>,
                  [summary |-> [total_entries |-> Len(es),
                                complete |-> NothingMissingCount(issues),
                                incomplete |-> Len(issues)],
                   issues |-> issues])
        f4 == WriteFile(f3, <<"validation_report.txt">>, report)
    IN  [entries |-> [k \in 1..Len(es) |-> FinalEntry(es[k])],
         validations |-> [k \in 1..Len(vs) |-> FinalValidation(vs[k], es[k])],
         master_index |-> index,
         validation_report |-> issues,
         files |-> f4,
         result |-> [success |-> TRUE, total_entries |-> Len(es),
                     complete |-> Len(es) - Len(issues),
                     incomplete |-> Len(issues), report |-> report,
                     output_path |-> "output_folder"]]

\* the part of process() after the loop
Validate ==
    /\ phase = "flushed"
    /\ LET out == Outputs(entries, validations, files)
       IN  /\ entries' = out.entries
           /\ validations' = out.validations
           /\ master_index' = out.master_index
           /\ validation_report' = out.validation_report
           /\ files' = out.files
           /\ result' = out.result
    /\ phase' = "done"
    /\ UNCHANGED <<doc, para_index, classification, diagnostic, state, current_entry,
                   current_validation, strip_runs, stdout, exit_status>>

\* One iteration of the loop of process() as a function: r holds entries,
\* validations, the active entry and validation, and the parser state.
LoopStart ==
    [entries |-> <<>>, validations |-> <<>>, entry |-> None, validation |-> None,
     state |-> InitialState]

LoopStep(r, para, idx) ==
    LET raw_text == strip(para.text)
        d == classify_paragraph(raw_text, idx, r.state)
    IN  IF raw_text = <<>> THEN r
        ELSE IF d.classification = "DAY_MARKER"
        THEN [entries |-> AppendIfAny(r.entries, r.entry),
              validations |-> AppendIfAny(r.validations, r.validation),
              entry |-> NewEntry(day_num(raw_text)),
              validation |-> [EntryValidation(day_num(raw_text), <<>>)
                                 EXCEPT !.diagnostics = <<d>>],
              state |-> reset_state(r.state)]
        ELSE IF r.entry = None THEN r
        ELSE LET c1 == ApplyClassification(
                           d.classification,
                           [entry |-> MarkEntryMeta(para, r.entry),
                            validation |-> [r.validation EXCEPT
                                               !.diagnostics = Append(@, d)],
                            state |-> r.state],
                           raw_text, get_paragraph_content(para))
             IN  [r EXCEPT !.entry = c1.entry, !.validation = c1.validation,
                           !.state = c1.state]

\* for para_index, para in enumerate(doc.paragraphs), from the i-th paragraph on
RECURSIVE Loop(_, _, _)
Loop(d, i, r) == IF i > Len(d) THEN r ELSE Loop(d, i + 1, LoopStep(r, d[i], i - 1))

\* process() on the document d, writing to an empty folder: what it leaves
\* and returns
process(d) ==
    LET r == Loop(d, 1, LoopStart)
    IN  Outputs(AppendIfAny(r.entries, r.entry),
                AppendIfAny(r.validations, r.validation), <<>>)

\* main(): process() has returned; print the report and the output summary.
\* main() has no return value and no sys.exit, so the script ends with
\* status 0.
main ==
    /\ phase = "done"
    /\ stdout' = <<result.report, "",
                   <<"Output written to: ", result.output_path>>,
                   "- Individual day files: day-NNN.json",
                   "- Master index: index.json",
                   "- Validation reports: validation_report.json, validation_report.txt">>
    /\ exit_status' = 0
    /\ phase' = "exited"
    /\ UNCHANGED <<doc, para_index, classification, diagnostic, state, current_entry,
                   current_validation, entries, validations, master_index,
                   validation_report, result, files, strip_runs>>

----------------------------------------------------------------------------
(* Documents *)

Plain(text) == [text |-> text, style |-> {}]

\* the paragraphs of the documents of Spec
Paragraphs ==
    { Plain(<<" ">>),
      Plain(<<" ", "day", "1">>),
      Plain(<<"#", "2">>),
      [text |-> <<"grace", "&", "http://x", " ">>, style |-> {"bold", "red"}],
      Plain(<<"john", "3", ":", "16">>),
      Plain(<<"study", "text", ":", "john", "3", ":", "16">>),
      Plain(<<"study", "text">>),
      Plain(<<"prayer", ":", "lord">>) }

SeqsUpTo(S, n) == UNION {[1..k -> S] : k \in 0..n}

\* The documents of SpecDay: a day window, each part present or absent.
Opt(S) == {<<>>} \cup {<<p>> : p \in S}

WindowPreamble == {<<>>, <<Plain(<<>>), Plain(<<"foreword">>)>>}

WindowDay == {<<Plain(<<"day", "5">>)>>, <<Plain(<<"3", "-", "day">>)>>}

WindowTitle == Opt({Plain(<<"my", "title">>)})

WindowHeader ==
    Opt({Plain(<<"study", "text", ":", "john", "3", ":", "16">>),
         Plain(<<"passage", ":", "genesis", "1">>),
         Plain(<<"scripture", "ref">>)})

WindowScripture ==
    Opt({[text |-> <<"for", "god", "so", "loved">>, style |-> {"italic"}]})

WindowBody ==
    SeqsUpTo({Plain(<<"body", "para", "1">>), Plain(<<"body", "para", "2">>)}, MaxBody)

WindowPrayer ==
    Opt({Plain(<<"prayer", ":", "-", "lord", "hear", "us">>), Plain(<<"prayer", ":">>)})

WindowBible ==
    Opt({Plain(<<"bible", "in", "a", "year", ":", "genesis", "1", "-", "3">>),
         Plain(<<"bible", "reading", "plan", ":", "genesis", "1">>)})

\* the marker of a following day, which closes the window
WindowNextDay == Opt({Plain(<<"day", "5">>)})

\* The inputs of SpecClassify: a text and a parser state.
ClassifyTexts ==
    { <<"day", "1">>, <<"1", "-", "day">>, <<"#", "2">>,
      <<"1", "-", "daily", "reading">>,
      <<"day", "1", "prayer", ":", "text", ":">>,
      <<"study", "text", ":", "john", "3", ":", "16">>,
      <<"prayer", ":", "text", ":", "lord">>,
      <<"daily", "reading", ":", "john", "1">>,
      <<"prayer", ":", "read", "also", "john", "1">>,
      <<"prayer", ":", "-", "lord">>, <<"prayer">>, <<"prayer", "lord">>,
      <<"let", "us", "pray">>,
      <<"bible", "in", "a", "year", ":", "genesis", "1">>,
      <<"further", "reading", "john", "1">>,
      <<"lord">>, <<"john", "3", ":", "16">>, <<"a", "day", "1">> }

ParserStates ==
    [awaiting_title : BOOLEAN, awaiting_scripture_ref : BOOLEAN,
     awaiting_scripture_text : BOOLEAN, in_devotional : BOOLEAN]

\* The inputs of SpecStrip: the texts of at most MaxLen of these tokens.
StripTokens == {"prayer", ":", "study", "text", "lord"}

----------------------------------------------------------------------------
(* Specifications *)

\* nothing processed, nothing written
Fresh ==
    /\ para_index = 0
    /\ classification = "None"
    /\ diagnostic = None
    /\ current_entry = None
    /\ current_validation = None
    /\ entries = <<>>
    /\ validations = <<>>
    /\ master_index = <<>>
    /\ validation_report = <<>>
    /\ result = None
    /\ files = <<>>
    /\ stdout = <<>>
    /\ exit_status = None

\* the state of process() when the loop starts on document d
InitProcess(d) ==
    /\ doc = d
    /\ phase = "loop"
    /\ state = InitialState
    /\ strip_runs = <<>>
    /\ Fresh

\* process() on any document of at most MaxParas paragraphs
Init == \E d \in SeqsUpTo(Paragraphs, MaxParas) : InitProcess(d)

Next ==
    \/ SkipEmpty
    \/ OpenDay
    \/ SkipBeforeFirstDay
    \/ ApplyParagraph
    \/ EndOfInput
    \/ Validate
    \/ main

Spec == Init /\ [][Next]_vars

\* process() on a day window
InitDay ==
    \E pre \in WindowPreamble, day \in WindowDay, title \in WindowTitle,
       header \in WindowHeader, scripture \in WindowScripture,
       body \in WindowBody, prayer \in WindowPrayer, bible \in WindowBible,
       next \in WindowNextDay :
        InitProcess(pre \o day \o title \o header \o scripture \o body \o prayer
                        \o bible \o next)

SpecDay == InitDay /\ [][Next]_vars

\* classify_paragraph on one text in one parser state
InitClassify ==
    \E t \in ClassifyTexts, st \in ParserStates :
        /\ doc = <<Plain(t)>>
        /\ phase = "classify"
        /\ state = st
        /\ strip_runs = <<>>
        /\ Fresh

Classify ==
    /\ phase = "classify"
    /\ diagnostic' = classify_paragraph(RawText, para_index, state)
    /\ classification' = diagnostic'.classification
    /\ phase' = "classified"
    /\ UNCHANGED <<doc, para_index, state, current_entry, current_validation, entries,
                   validations>>
    /\ UnchangedOutput

NextClassify == Classify

SpecClassify == InitClassify /\ [][NextClassify]_vars

\* _strip_label on one text, and again on its result
InitStrip ==
    \E t \in SeqsUpTo(StripTokens, MaxLen) :
        /\ doc = <<>>
        /\ phase = "strip"
        /\ state = InitialState
        /\ strip_runs = <<t>>
        /\ Fresh

StripLabel ==
    /\ phase = "strip"
    /\ Len(strip_runs) < 3
    /\ strip_runs' = Append(strip_runs, _strip_label(strip_runs[Len(strip_runs)]))
    /\ UNCHANGED <<doc, para_index, phase, classification, diagnostic, state,
                   current_entry, current_validation, entries, validations,
                   master_index, validation_report, result, files, stdout,
                   exit_status>>

NextStrip == StripLabel

SpecStrip == InitStrip /\ [][NextStrip]_vars

----------------------------------------------------------------------------
(* Properties *)

RawOf(p) == strip(p.text)

\* the integer a day marker carries: its first numeral
RECURSIVE FirstNumeral(_)
FirstNumeral(t) ==
    IF t = <<>> THEN -1
    ELSE IF IsNum(Head(t)) THEN NumVal[Head(t)] ELSE FirstNumeral(Tail(t))

IsDayMarker(p) == RawOf(p) # <<>> /\ DayPattern(RawOf(p)) # 0

\* the integers of the day markers of d, in the order of d
RECURSIVE MarkerDays(_)
MarkerDays(d) ==
    IF d = <<>> THEN <<>>
    ELSE (IF IsDayMarker(Head(d)) THEN <<FirstNumeral(RawOf(Head(d)))>> ELSE <<>>)
         \o MarkerDays(Tail(d))

DaysOf(es) == [k \in 1..Len(es) |-> es[k].day]

OpenedDays == IF current_entry = None THEN <<>> ELSE <<current_entry.day>>

\* C1: when process() has left its loop, the closed entries are one per day
\* marker of the document and their day values are the markers' integers in
\* document order; while the loop runs, the closed entries followed by the
\* open one are the markers met so far (an entry is closed once, by the next
\* marker or by the end of the input).
C1_OneEntryPerDayMarker ==
    /\ phase \in {"flushed", "done"} => DaysOf(entries) = MarkerDays(doc)
    /\ phase = "loop" =>
           DaysOf(entries) \o OpenedDays = MarkerDays(SubSeq(doc, 1, para_index))

C1_Witness ==
    /\ phase = "done"
    /\ Len(doc) = 4
    /\ DaysOf(entries) = <<1, 2, 1>>

\* the paragraph matches none of the four pattern groups
Unlabelled(t) ==
    /\ t # <<>>
    /\ DayPattern(t) = 0
    /\ StudyTextPattern(t) = 0
    /\ PrayerPattern(t) = 0
    /\ BibleReadingPattern(t) = 0

\* a study-text header whose text after the first colon is citation-shaped
InlineHeader(t) ==
    /\ DayPattern(t) = 0
    /\ StudyTextPattern(t) # 0
    /\ FirstColon(t, 1) # 0
    /\ AfterColon(t) # <<>>
    /\ _looks_like_scripture_reference(AfterColon(t))

PrayerLabelled(t) ==
    DayPattern(t) = 0 /\ StudyTextPattern(t) = 0 /\ PrayerPattern(t) # 0

BibleLabelled(t) ==
    /\ DayPattern(t) = 0
    /\ StudyTextPattern(t) = 0
    /\ PrayerPattern(t) = 0
    /\ BibleReadingPattern(t) # 0

\* the document is one day window of the shape of C2
FullWindow(d) ==
    /\ Len(d) >= 8
    /\ IsDayMarker(d[1])
    /\ Unlabelled(RawOf(d[2]))
    /\ InlineHeader(RawOf(d[3]))
    /\ \A k \in 4..(Len(d) - 2) : Unlabelled(RawOf(d[k]))
    /\ PrayerLabelled(RawOf(d[Len(d) - 1]))
    /\ _strip_label(RawOf(d[Len(d) - 1])) # <<>>
    /\ BibleLabelled(RawOf(d[Len(d)]))
    /\ _strip_label(RawOf(d[Len(d)])) # <<>>

\* C2: a day window made of a day marker, an unlabelled title, a study-text
\* header with an inline citation, an unlabelled scripture paragraph, two or
\* more unlabelled body paragraphs, a prayer paragraph and a Bible-reading
\* paragraph, both with content, yields one entry with the title text, the
\* inline reference, the scripture paragraph's content, the body paragraphs
\* joined in document order, the label-stripped prayer and reading, and no
\* missing section.
C2_FullWindowEntry ==
    (phase = "done" /\ FullWindow(doc)) =>
        LET n == Len(doc)
            e == entries[1]
        IN  /\ Len(entries) = 1
            /\ e.day = FirstNumeral(RawOf(doc[1]))
            /\ e.title = RawOf(doc[2])
            /\ e.scripture_ref = AfterColon(RawOf(doc[3]))
            /\ e.scripture_text = get_paragraph_content(doc[4])
            /\ e.devotional =
                   Join([k \in 1..(n - 6) |->
                            DevotionalParagraph(get_paragraph_content(doc[k + 4]))])
            /\ e.prayer = _strip_label(RawOf(doc[n - 1]))
            /\ e.bible_reading = _strip_label(RawOf(doc[n]))
            /\ validations[1].missing_sections = <<>>

C2_Witness ==
    /\ phase = "done"
    /\ FullWindow(doc)
    /\ entries[1].day = 5
    /\ entries[1].title = <<"my", "title">>
    /\ entries[1].scripture_ref = <<"john", "3", ":", "16">>
    /\ entries[1].prayer = <<"lord", "hear", "us">>
    /\ entries[1].bible_reading = <<"genesis", "1", "-", "3">>
    /\ validations[1].missing_sections = <<>>

ContentFields ==
    {"title", "scripture_ref", "scripture_text", "devotional", "prayer", "bible_reading"}

EmptyFields(e) == {f \in ContentFields : e[f] = <<>>}

Elements(list) == {list[k] : k \in 1..Len(list)}

\* C3: for every closed entry, missing_sections holds exactly the content
\* fields that are empty at close, each once; an entry whose only empty
\* field is prayer reports <<"prayer">>; is_complete holds iff
\* missing_sections is empty.
C3_MissingAreTheEmptyFields ==
    phase = "done" =>
        \A k \in 1..Len(entries) :
            LET m == validations[k].missing_sections
            IN  /\ Elements(m) = EmptyFields(entries[k])
                /\ Len(m) = Cardinality(Elements(m))
                /\ EmptyFields(entries[k]) = {"prayer"} => m = <<"prayer">>
                /\ is_complete(validations[k]) <=> m = <<>>
                /\ master_index[k].is_complete <=> EmptyFields(entries[k]) = {}

C3_Witness ==
    /\ phase = "done"
    /\ Len(entries) = 1
    /\ \A k \in 1..Len(doc) : PrayerPattern(RawOf(doc[k])) = 0
    /\ validations[1].missing_sections = <<"prayer">>
    /\ ~is_complete(validations[1])

AwaitingCount(st) ==
    Cardinality({f \in {"awaiting_title", "awaiting_scripture_ref",
                        "awaiting_scripture_text"} : st[f]})

\* C4: in every reachable parser state at most one of awaiting_title,
\* awaiting_scripture_ref and awaiting_scripture_text is true.
C4_AtMostOneAwaiting == AwaitingCount(state) <= 1


Labels ==
    {"DAY_MARKER", "TITLE", "STUDY_TEXT_HEADER", "SCRIPTURE_REF", "SCRIPTURE_TEXT",
     "PRAYER", "BIBLE_READING", "DEVOTIONAL"}

\* C5: classify_paragraph is pattern-first: a text that matches a pattern
\* group gets the label of the first group it matches, in the order day
\* marker, study-text header, prayer, Bible reading, in every parser state.
C5_PatternFirst ==
    phase = "classified" =>
        LET t == RawOf(doc[1])
        IN  /\ DayPattern(t) # 0 => classification = "DAY_MARKER"
            /\ (DayPattern(t) = 0 /\ StudyTextPattern(t) # 0) =>
                   classification = "STUDY_TEXT_HEADER"
            /\ (DayPattern(t) = 0 /\ StudyTextPattern(t) = 0 /\ PrayerPattern(t) # 0) =>
                   classification = "PRAYER"
            /\ (/\ DayPattern(t) = 0 /\ StudyTextPattern(t) = 0
                /\ PrayerPattern(t) = 0 /\ BibleReadingPattern(t) # 0) =>
                   classification = "BIBLE_READING"

C5_Witness ==
    /\ phase = "classified"
    /\ StudyTextPattern(RawOf(doc[1])) # 0
    /\ PrayerPattern(RawOf(doc[1])) # 0
    /\ state.awaiting_title /\ state.awaiting_scripture_ref
    /\ classification = "STUDY_TEXT_HEADER"

\* C6: every classified paragraph has one label of the eight, and a text
\* that matches no pattern group is TITLE if awaiting_title, else
\* SCRIPTURE_REF if awaiting_scripture_ref, else SCRIPTURE_TEXT if
\* awaiting_scripture_text, else DEVOTIONAL.
C6_StateFallback ==
    phase = "classified" =>
        /\ classification \in Labels
        /\ diagnostic.classification = classification
        /\ Unlabelled(RawOf(doc[1])) =>
               classification =
                   IF state.awaiting_title THEN "TITLE"
                   ELSE IF state.awaiting_scripture_ref THEN "SCRIPTURE_REF"
                   ELSE IF state.awaiting_scripture_text THEN "SCRIPTURE_TEXT"
                   ELSE "DEVOTIONAL"

C6_Witness ==
    /\ phase = "classified"
    /\ Unlabelled(RawOf(doc[1]))
    /\ ~state.awaiting_title
    /\ state.awaiting_scripture_ref /\ state.awaiting_scripture_text
    /\ classification = "SCRIPTURE_REF"

\* the loop is about to apply a paragraph to the active entry
Applying ==
    /\ phase = "loop"
    /\ para_index < Len(doc)
    /\ para_index' = para_index + 1
    /\ current_entry # None
    /\ RawText # <<>>

LastDiagnostic(v) == v.diagnostics[Len(v.diagnostics)]

HeaderStep == Applying /\ DayPattern(RawText) = 0 /\ StudyTextPattern(RawText) # 0

\* C7: applying a study-text header that carries a citation after its first
\* colon stores the citation as scripture_ref, clears awaiting_title, leaves
\* awaiting_scripture_ref false and sets awaiting_scripture_text, with the
\* one STUDY_TEXT_HEADER diagnostic and no other; the next paragraph that
\* matches no pattern is then SCRIPTURE_TEXT.  A header without such a
\* citation sets awaiting_scripture_ref and stores nothing.
C7_InlineReference ==
    [][ /\ (HeaderStep /\ InlineHeader(RawText)) =>
               /\ current_entry'.scripture_ref = AfterColon(RawText)
               /\ ~state'.awaiting_title
               /\ ~state'.awaiting_scripture_ref
               /\ state'.awaiting_scripture_text
               /\ Len(current_validation'.diagnostics)
                      = Len(current_validation.diagnostics) + 1
               /\ LastDiagnostic(current_validation').classification = "STUDY_TEXT_HEADER"
        /\ (HeaderStep /\ ~InlineHeader(RawText)) =>
               /\ state'.awaiting_scripture_ref
               /\ ~state'.awaiting_title
               /\ state'.awaiting_scripture_text = state.awaiting_scripture_text
               /\ current_entry'.scripture_ref = current_entry.scripture_ref
        /\ (/\ Applying
            /\ classification = "STUDY_TEXT_HEADER"
            /\ InlineHeader(diagnostic.raw_text)
            /\ Unlabelled(RawText)) =>
               /\ classification' = "SCRIPTURE_TEXT"
               /\ LastDiagnostic(current_validation').classification = "SCRIPTURE_TEXT"
      ]_vars

C7_Witness ==
    /\ phase = "loop"
    /\ current_entry # None
    /\ classification = "SCRIPTURE_TEXT"
    /\ LET ds == current_validation.diagnostics
       IN  /\ Len(ds) >= 3
           /\ ds[Len(ds) - 1].classification = "STUDY_TEXT_HEADER"
           /\ InlineHeader(ds[Len(ds) - 1].raw_text)
           /\ current_entry.scripture_ref = AfterColon(ds[Len(ds) - 1].raw_text)
           /\ \A k \in 1..Len(ds) : ds[k].classification # "SCRIPTURE_REF"
    /\ current_entry.scripture_text # <<>>

\* C8: while awaiting_scripture_ref holds (and awaiting_title does not), a
\* paragraph that matches no pattern group is labelled SCRIPTURE_REF whether
\* or not it is citation-shaped; when it is not, the diagnostic carries the
\* "please verify" reason; in both cases its text becomes scripture_ref and
\* the state moves on to awaiting_scripture_text.
C8_TolerantScriptureRef ==
    [][ (/\ Applying
         /\ state.awaiting_scripture_ref
         /\ ~state.awaiting_title
         /\ Unlabelled(RawText)) =>
            /\ classification' = "SCRIPTURE_REF"
            /\ diagnostic'.reason =
                   IF _looks_like_scripture_reference(RawText)
                   THEN ReasonRefLooks ELSE ReasonRefVerify
            /\ LastDiagnostic(current_validation') = diagnostic'
            /\ current_entry'.scripture_ref = RawText
            /\ state'.awaiting_scripture_text
            /\ ~state'.awaiting_scripture_ref
      ]_vars

C8_Witness ==
    /\ phase = "loop"
    /\ current_entry # None
    /\ classification = "SCRIPTURE_REF"
    /\ diagnostic.reason = ReasonRefVerify
    /\ ~_looks_like_scripture_reference(diagnostic.raw_text)
    /\ current_entry.scripture_ref = diagnostic.raw_text
    /\ state.awaiting_scripture_text
    /\ ~state.awaiting_scripture_ref

\* C9: _strip_label is idempotent: applied to its own result it changes
\* nothing.
C9_StripIdempotent == Len(strip_runs) = 3 => strip_runs[3] = strip_runs[2]

\* process() has returned
Returned == phase \in {"done", "exited"}

\* C11: the day values of the produced entries are pairwise distinct, so no
\* two entries have the same per-day file name, also when the same day
\* number appears in two day markers.
C11_DistinctDays ==
    Returned =>
        \A i, j \in 1..Len(entries) :
            i # j => /\ entries[i].day # entries[j].day
                     /\ FileName(entries[i].day) # FileName(entries[j].day)

\* the loop is at a paragraph that is a day marker
MarkerStep ==
    /\ phase = "loop"
    /\ para_index < Len(doc)
    /\ para_index' = para_index + 1
    /\ RawText # <<>>
    /\ DayPattern(RawText) # 0

IsPrefix(s, t) == Len(s) <= Len(t) /\ SubSeq(t, 1, Len(s)) = s

StoredFields == {"day", "title", "scripture_ref", "scripture_text", "prayer",
                 "bible_reading", "has_links", "has_highlights"}

\* C12: a day marker sets the parser state to awaiting_title alone and opens
\* an entry whose six content fields and devotional list are empty, whatever
\* the state and the entry before; the entry it closes is kept as it was, and
\* no later paragraph changes a closed entry or its diagnostics (the
\* validation that follows the loop joins the devotional list and fills in
\* missing_sections and warnings, and changes no other field and no
\* diagnostic).
C12_DayMarkerResets ==
    [][ /\ MarkerStep =>
               /\ state' = [awaiting_title |-> TRUE, awaiting_scripture_ref |-> FALSE,
                            awaiting_scripture_text |-> FALSE, in_devotional |-> FALSE]
               /\ current_entry'.day = FirstNumeral(RawText)
               /\ \A f \in ContentFields : current_entry'[f] = <<>>
               /\ current_entry'.temp_devotional_list = <<>>
               /\ current_validation'.title = <<>>
               /\ Len(current_validation'.diagnostics) = 1
               /\ current_entry # None =>
                      /\ entries' = Append(entries, current_entry)
                      /\ validations' = Append(validations, current_validation)
        /\ phase = "loop" =>
               /\ IsPrefix(entries, entries')
               /\ IsPrefix(validations, validations')
        /\ phase # "loop" =>
               /\ Len(entries') = Len(entries)
               /\ \A k \in 1..Len(entries) :
                      /\ \A f \in StoredFields : entries'[k][f] = entries[k][f]
                      /\ validations'[k].diagnostics = validations[k].diagnostics
      ]_vars

C12_Witness ==
    /\ phase = "loop"
    /\ classification = "DAY_MARKER"
    /\ Len(entries) = 1
    /\ entries[1].title # <<>>
    /\ entries[1].scripture_ref # <<>>
    /\ entries[1].scripture_text = <<>>
    /\ Len(validations[1].diagnostics) = 3
    /\ state = reset_state(InitialState)
    /\ current_entry = NewEntry(current_entry.day)
    /\ Len(current_validation.diagnostics) = 1

\* the loop applies a paragraph that is not a day marker to the active entry
ContentStep == Applying /\ DayPattern(RawText) = 0

\* C13: within a day window the title is written at most once: once it is
\* non-empty no later paragraph of the window changes it, and applying a
\* TITLE-labelled paragraph leaves awaiting_title false.
C13_TitleWrittenOnce ==
    [][ /\ (ContentStep /\ current_entry.title # <<>>) =>
               /\ current_entry'.title = current_entry.title
               /\ current_validation'.title = current_validation.title
        /\ (ContentStep /\ classification' = "TITLE") => ~state'.awaiting_title
      ]_vars

C13_Witness ==
    /\ phase = "loop"
    /\ current_entry # None
    /\ LET ds == current_validation.diagnostics
       IN  /\ Len(ds) = 4
           /\ ds[2].classification = "TITLE"
           /\ ds[4].classification = "DEVOTIONAL"
           /\ current_entry.title = ds[2].raw_text
           /\ ds[4].raw_text # ds[2].raw_text
    /\ ~state.awaiting_title

\* the DEVOTIONAL-labelled paragraph ds[i] of a window was taken as the title:
\* no paragraph before it in the window was labelled TITLE or DEVOTIONAL
TakenAsTitle(ds, i) ==
    /\ ds[i].classification = "DEVOTIONAL"
    /\ \A j \in 1..(i - 1) : ds[j].classification \notin {"TITLE", "DEVOTIONAL"}

\* the body paragraphs of the window whose diagnostics are ds, from the i-th on
RECURSIVE BodyOf(_, _)
BodyOf(ds, i) ==
    IF i > Len(ds) THEN <<>>
    ELSE (IF ds[i].classification = "DEVOTIONAL" /\ ~TakenAsTitle(ds, i)
          THEN <<DevotionalParagraph(get_paragraph_content(doc[ds[i].paragraph_index + 1]))>>
          ELSE <<>>)
         \o BodyOf(ds, i + 1)

\* C14: applying a DEVOTIONAL-labelled paragraph stores it as the title when
\* the title is empty and leaves the devotional list unchanged, otherwise it
\* appends the paragraph at the end of the list; the list of the active entry
\* and the devotional field of every closed entry are, in document order and
\* with duplicates kept, exactly the DEVOTIONAL-labelled paragraphs of the
\* window that were not taken as the title.
C14_DevotionalList ==
    /\ [](current_entry # None =>
              current_entry.temp_devotional_list = BodyOf(current_validation.diagnostics, 1))
    /\ [](Returned =>
              \A k \in 1..Len(entries) :
                  entries[k].devotional = Join(BodyOf(validations[k].diagnostics, 1)))
    /\ [][ (ContentStep /\ classification' = "DEVOTIONAL") =>
               IF current_entry.title = <<>>
               THEN /\ current_entry'.title = RawText
                    /\ current_entry'.temp_devotional_list
                           = current_entry.temp_devotional_list
               ELSE /\ current_entry'.title = current_entry.title
                    /\ current_entry'.temp_devotional_list
                           = Append(current_entry.temp_devotional_list,
                                    DevotionalParagraph(get_paragraph_content(Para)))
         ]_vars

C14_Witness ==
    /\ Returned
    /\ Len(doc) = 4
    /\ Len(entries) = 1
    /\ doc[3] = doc[4]
    /\ Len(validations[1].diagnostics) = 4
    /\ validations[1].diagnostics[2].classification = "TITLE"
    /\ validations[1].diagnostics[3].classification = "DEVOTIONAL"
    /\ entries[1].devotional =
           Join(<<DevotionalParagraph(get_paragraph_content(doc[3])),
                  DevotionalParagraph(get_paragraph_content(doc[4]))>>)

\* C15: whenever the devotional body of a closed entry has fewer than two
\* paragraphs (zero or one), the short-devotional warning is in the entry's
\* warnings, and the warning adds nothing to missing_sections (which stays
\* the list of the empty content fields).
C15_ShortDevotionalWarned ==
    Returned =>
        \A k \in 1..Len(entries) :
            LET n == Len(BodyOf(validations[k].diagnostics, 1))
            IN  n < 2 =>
                    /\ validations[k].warnings = <<ShortDevotional(n)>>
                    /\ Elements(validations[k].missing_sections) = EmptyFields(entries[k])

ReportFiles == {<<"index.json">>, <<"validation_report.json">>, <<"validation_report.txt">>}

\* C16: the run signals failure (a non-zero exit status or an unsuccessful
\* result) if and only if some entry has a missing section, and in both
\* cases every per-day record, the index and both validation reports have
\* been written.
C16_FailureIffIssue ==
    phase = "exited" =>
        /\ (exit_status # 0 \/ ~result.success)
               <=> (\E k \in 1..Len(validations) : validations[k].missing_sections # <<>>)
        /\ ReportFiles \subseteq DOMAIN files
        /\ \A k \in 1..Len(entries) : FileName(entries[k].day) \in DOMAIN files

\* the document without the paragraphs before its first day marker
RECURSIVE DropPreamble(_)
DropPreamble(d) ==
    IF d = <<>> THEN <<>>
    ELSE IF IsDayMarker(Head(d)) THEN d ELSE DropPreamble(Tail(d))

\* the document without its empty and white-space-only paragraphs
RECURSIVE DropEmpty(_)
DropEmpty(d) ==
    IF d = <<>> THEN <<>>
    ELSE (IF RawOf(Head(d)) = <<>> THEN <<>> ELSE <<Head(d)>>) \o DropEmpty(Tail(d))

Removed(d) == DropEmpty(DropPreamble(d))

\* the loop is at an empty paragraph or at a paragraph before the first day
\* marker
SkipStep ==
    /\ phase = "loop"
    /\ para_index < Len(doc)
    /\ para_index' = para_index + 1
    /\ \/ RawText = <<>>
       \/ current_entry = None /\ DayPattern(RawText) = 0

SkipIsFrame ==
    SkipStep => UNCHANGED <<state, current_entry, current_validation, entries, validations>>

ReturnedCounts(r) ==
    [success |-> r.success, total_entries |-> r.total_entries, complete |-> r.complete,
     incomplete |-> r.incomplete, output_path |-> r.output_path]

\* diagnostics, and lists of issues, with the paragraph indexes left out
NoParagraphIndex(ds) == [i \in 1..Len(ds) |-> [ds[i] EXCEPT !.paragraph_index = 0]]

NoParaIndex(issues) ==
    [k \in 1..Len(issues) |->
        [issues[k] EXCEPT !.diagnostics =
            [i \in 1..Len(@) |-> [@[i] EXCEPT !.para_index = 0]]]]

\* C17 as stated: empty paragraphs and the paragraphs before the first day
\* marker add no entry, no diagnostic and no field value and leave the four
\* flags unchanged, so what process() writes and returns equals what it
\* writes and returns for the document with those paragraphs removed.
C17_OutputEqualsRemoved ==
    /\ [][SkipIsFrame]_vars
    /\ [](phase = "done" =>
              LET out == process(Removed(doc))
              IN  /\ entries = out.entries
                  /\ validations = out.validations
                  /\ files = out.files
                  /\ result = out.result)

\* C17 as amended: the same, except that the diagnostics keep the positions
\* of their paragraphs in the original document: the entries, the per-day
\* files, the index, the missing sections, the warnings and the counts equal
\* those of the document with the paragraphs removed, and the diagnostics and
\* the two validation reports equal them once the paragraph indexes are left
\* out.
C17_OutputEqualsRemovedButIndexes ==
    /\ [][SkipIsFrame]_vars
    /\ [](phase = "done" =>
              LET out == process(Removed(doc))
                  json == <<"validation_report.json">>
                  txt == <<"validation_report.txt">>
              IN  /\ entries = out.entries
                  /\ master_index = out.master_index
                  /\ DOMAIN files = DOMAIN out.files
                  /\ \A f \in DOMAIN files \ {json, txt} : files[f] = out.files[f]
                  /\ Len(validations) = Len(out.validations)
                  /\ \A k \in 1..Len(validations) :
                         [validations[k] EXCEPT !.diagnostics = NoParagraphIndex(@)]
                             = [out.validations[k] EXCEPT
                                   !.diagnostics = NoParagraphIndex(@)]
                  /\ NoParaIndex(validation_report) = NoParaIndex(out.validation_report)
                  /\ files[json].summary = out.files[json].summary
                  /\ NoParaIndex(files[json].issues) = NoParaIndex(out.files[json].issues)
                  /\ [files[txt] EXCEPT !.listed = NoParaIndex(@)]
                         = [out.files[txt] EXCEPT !.listed = NoParaIndex(@)]
                  /\ result.report = files[txt]
                  /\ ReturnedCounts(result) = ReturnedCounts(out.result))

C17_Witness ==
    /\ phase = "done"
    /\ Len(doc) = 4
    /\ Len(Removed(doc)) = 2
    /\ RawOf(doc[1]) # <<>>
    /\ IsDayMarker(doc[2])
    /\ RawOf(doc[3]) = <<>>
    /\ Len(entries) = 1
    /\ entries[1].title = RawOf(doc[4])
    /\ validations[1].diagnostics[2].paragraph_index = 3

\* the positions (from 1) of the day markers among the first n paragraphs
MarkerPositions(n) == {i \in 1..n : IsDayMarker(doc[i])}

\* the non-empty paragraphs among the first n that belong to the window
\* opened by the marker at position m
WindowOf(m, n) ==
    {i \in m..n : RawOf(doc[i]) # <<>> /\ \A j \in (m + 1)..i : ~IsDayMarker(doc[j])}

\* the diagnostics ds are those of the k-th day window
WindowDiagnostics(ds, k) ==
    /\ ds # <<>>
    /\ ds[1].classification = "DAY_MARKER"
    /\ LET m == ds[1].paragraph_index + 1
           markers == MarkerPositions(para_index)
           window == WindowOf(m, para_index)
       IN  /\ m \in markers
           /\ Cardinality({j \in markers : j <= m}) = k
           /\ {ds[i].paragraph_index + 1 : i \in 1..Len(ds)} = window
           /\ Len(ds) = Cardinality(window)
    /\ \A i \in 1..(Len(ds) - 1) : ds[i].paragraph_index < ds[i + 1].paragraph_index
    /\ \A i \in 1..Len(ds) : ds[i].raw_text = RawOf(doc[ds[i].paragraph_index + 1])
    /\ \A i \in 2..Len(ds) : ds[i].classification # "DAY_MARKER"

\* the active entry, its validation with the diagnostics replaced by ds, and
\* the parser state, as the apply step finds them
ApplyInput(ds) ==
    [entry |-> MarkEntryMeta(Para, current_entry),
     validation |-> [current_validation EXCEPT !.diagnostics = ds],
     state |-> state]

AppliedTo(ds) ==
    ApplyClassification(classification', ApplyInput(ds), RawText,
                        get_paragraph_content(Para))

\* C18: the diagnostic list of each day holds one diagnostic per non-empty
\* paragraph of its window, the day marker first, in document order with
\* strictly increasing paragraph_index; a diagnostic is never changed or
\* removed once appended; and the diagnostics do not influence a label, a
\* state flag or a field value (the apply step gives the same entry and
\* state whatever the diagnostic list holds).
C18_DiagnosticsPerParagraph ==
    /\ [](/\ \A k \in 1..Len(validations) :
                 WindowDiagnostics(validations[k].diagnostics, k)
          /\ (phase = "loop" /\ current_validation # None) =>
                 WindowDiagnostics(current_validation.diagnostics, Len(validations) + 1))
    /\ [][ /\ \A k \in 1..Len(validations) :
                  validations'[k].diagnostics = validations[k].diagnostics
           /\ ContentStep =>
                  /\ current_validation'.diagnostics
                         = Append(current_validation.diagnostics, diagnostic')
                  /\ diagnostic'.paragraph_index = para_index
                  /\ \A ds \in {<<>>, <<diagnostic'>>} :
                         LET applied == AppliedTo(ds)
                         IN  applied.entry = current_entry' /\ applied.state = state'
         ]_vars

C18_Witness ==
    /\ Returned
    /\ Len(validations) = 2
    /\ Len(validations[1].diagnostics) = 2
    /\ validations[1].diagnostics[1].paragraph_index = 0
    /\ validations[1].diagnostics[2].paragraph_index = 2
    /\ validations[2].diagnostics[1].paragraph_index = 3
    /\ RawOf(doc[2]) = <<>>

\* number of entries with an empty missing_sections list
CompleteCount ==
    Cardinality({k \in 1..Len(validations) : validations[k].missing_sections = <<>>})

\* C19: the number of complete entries in the value process() returns, in
\* the summary of validation_report.json and in the text report equals the
\* number of entries whose missing_sections is empty, which is the index's
\* complete_days, and complete + incomplete = total entries in each of these
\* summaries; an entry with only a warning counts as complete.
C19_CompleteCounts ==
    Returned =>
        LET summary == files[<<"validation_report.json">>].summary
            text == files[<<"validation_report.txt">>]
        IN  /\ files[<<"index.json">>].complete_days = CompleteCount
            /\ result.complete = CompleteCount
            /\ summary.complete = CompleteCount
            /\ text.complete_entries = CompleteCount
            /\ result.complete + result.incomplete = result.total_entries
            /\ summary.complete + summary.incomplete = summary.total_entries
            /\ text.complete_entries + text.entries_with_issues
                   = text.total_entries_processed

\* the branch of the chain the step takes
BranchTaken ==
    Branch(Classified.classification,
           [entry |-> current_entry, validation |-> current_validation, state |-> state])

\* C20: whenever there is an active entry, awaiting_title implies that its
\* title is empty; so every TITLE-labelled paragraph is stored as the title,
\* every SCRIPTURE_REF and SCRIPTURE_TEXT label is applied by its own branch,
\* and the catch-all branch is never taken.
C20_CatchAllUnreachable ==
    /\ []((current_entry # None /\ state.awaiting_title) => current_entry.title = <<>>)
    /\ [][ ContentStep =>
               /\ BranchTaken # "catch_all"
               /\ classification' = "TITLE" =>
                      /\ BranchTaken = "title"
                      /\ current_entry.title = <<>>
                      /\ current_entry'.title = RawText
               /\ classification' = "SCRIPTURE_REF" =>
                      /\ BranchTaken = "scripture_ref"
                      /\ current_entry'.scripture_ref = _strip_label(RawText)
                      /\ current_entry'.temp_devotional_list
                             = current_entry.temp_devotional_list
               /\ classification' = "SCRIPTURE_TEXT" =>
                      /\ BranchTaken = "scripture_text"
                      /\ current_entry'.scripture_text = get_paragraph_content(Para)
                      /\ current_entry'.temp_devotional_list
                             = current_entry.temp_devotional_list
         ]_vars

C20_Witness ==
    /\ phase = "loop"
    /\ current_entry # None
    /\ LET ds == current_validation.diagnostics
       IN  /\ Len(ds) = 4
           /\ ds[2].classification = "TITLE"
           /\ ds[3].classification = "STUDY_TEXT_HEADER"
           /\ ds[4].classification = "SCRIPTURE_REF"
           /\ current_entry.title = ds[2].raw_text
           /\ current_entry.scripture_ref = ds[4].raw_text
    /\ ~state.awaiting_title
    /\ state.awaiting_scripture_text
    /\ current_entry.temp_devotional_list = <<>>

\* C21: in every reachable state with an active entry, awaiting_scripture_text
\* or a non-empty scripture_text implies a non-empty scripture_ref; hence no
\* closed entry reports scripture_ref missing while its scripture_text is
\* present.
C21_ScriptureTextHasRef ==
    /\ current_entry # None =>
           ((state.awaiting_scripture_text \/ current_entry.scripture_text # <<>>)
               => current_entry.scripture_ref # <<>>)
    /\ \A k \in 1..Len(entries) :
           entries[k].scripture_text # <<>> =>
               /\ entries[k].scripture_ref # <<>>
               /\ Returned =>
                      "scripture_ref" \notin Elements(validations[k].missing_sections)

C21_Witness ==
    /\ Returned
    /\ Len(entries) = 1
    /\ Len(validations[1].diagnostics) = 4
    /\ validations[1].diagnostics[3].classification = "SCRIPTURE_REF"
    /\ validations[1].diagnostics[3].reason = ReasonRefVerify
    /\ validations[1].diagnostics[4].classification = "SCRIPTURE_TEXT"
    /\ entries[1].scripture_ref = validations[1].diagnostics[3].raw_text
    /\ entries[1].scripture_text # <<>>
    /\ "scripture_ref" \notin Elements(validations[1].missing_sections)

\* the positions in ds of the PRAYER-labelled paragraphs
PrayerPositions(ds) == {i \in 1..Len(ds) : ds[i].classification = "PRAYER"}

LastPrayer(ds) == CHOOSE i \in PrayerPositions(ds) : \A j \in PrayerPositions(ds) : j <= i

\* C22: if a day window holds a PRAYER-labelled paragraph, then at close the
\* entry's prayer is non-empty and "prayer" is not in missing_sections, also
\* when the paragraph is the label prefix alone; with several PRAYER
\* paragraphs the field is the stripped content of the last one.
C22_PrayerPresent ==
    Returned =>
        \A k \in 1..Len(entries) :
            LET ds == validations[k].diagnostics
            IN  PrayerPositions(ds) # {} =>
                    /\ entries[k].prayer = _strip_label(ds[LastPrayer(ds)].raw_text)
                    /\ entries[k].prayer # <<>>
                    /\ "prayer" \notin Elements(validations[k].missing_sections)

====
